---- MODULE Spec2Model ----
(***************************************************************************)
(* A model of the `visual` feature-visualisation utilities:                *)
(*   visual/transforms.py    Compose, _rand_select, RandomScale,           *)
(*                           RandomRotate, RandomAlpha, SpatialJitter      *)
(*   visual/models/utils.py  Storer, storer, basemodel,                    *)
(*                           relus_to_not_inplace                          *)
(* Each class or function has its own group of variables and its own       *)
(* specification (SpecCompose, SpecSelect, SpecRotate, SpecStorer,         *)
(* SpecState, SpecRelu, SpecAlpha, SpecJitter); the variables of the other *)
(* groups stay at their initial value under it.                            *)
(***************************************************************************)
EXTENDS Integers, Sequences, FiniteSets, TLC

VARIABLES
  \* Compose
  compose_transforms, compose_x, compose_out, compose_log, compose_pc,
  \* _rand_select, RandomScale, RandomRotate
  heap, insts, last,
  \* Storer
  save_state, storers, fwd,
  \* storer
  state, state0, calls, storer_ret,
  \* basemodel, relus_to_not_inplace
  model_tree, layer_names, relu_pc,
  \* RandomAlpha
  alpha_x, alpha_colour, alpha_pc, alp,
  \* SpatialJitter
  jit_img, jit_pixels, jit_seed, jit_pc, jit

composeVars == <<compose_transforms, compose_x, compose_out, compose_log, compose_pc>>
randomVars == <<heap, insts, last>>
storerVars == <<save_state, storers, fwd>>
stateVars == <<state, state0, calls, storer_ret>>
reluVars == <<model_tree, layer_names, relu_pc>>
alphaVars == <<alpha_x, alpha_colour, alpha_pc, alp>>
jitterVars == <<jit_img, jit_pixels, jit_seed, jit_pc, jit>>

vars == <<composeVars, randomVars, storerVars, stateVars, reluVars, alphaVars, jitterVars>>

notCompose == <<randomVars, storerVars, stateVars, reluVars, alphaVars, jitterVars>>
notRandom == <<composeVars, storerVars, stateVars, reluVars, alphaVars, jitterVars>>
notStorer == <<composeVars, randomVars, stateVars, reluVars, alphaVars, jitterVars>>
notState == <<composeVars, randomVars, storerVars, reluVars, alphaVars, jitterVars>>
notRelu == <<composeVars, randomVars, storerVars, stateVars, alphaVars, jitterVars>>
notAlpha == <<composeVars, randomVars, storerVars, stateVars, reluVars, jitterVars>>
notJitter == <<composeVars, randomVars, storerVars, stateVars, reluVars, alphaVars>>

(***************************************************************************)
(* Bounds of the model.                                                    *)
(***************************************************************************)
MaxTransforms == 3
MaxVal == 2
MaxLen == 2
MaxInsts == 2
MaxCalls == 3
MaxModules == 3
MaxChannels == 3
MaxSide == 2
MaxPixels == 3

None == "None"

Range(s) == {s[i] : i \in 1..Len(s)}

SeqsUpTo(S, n) == UNION {[1..k -> S] : k \in 0..n}

(***************************************************************************)
(* _rand_select, RandomScale, RandomRotate (transforms.py).                *)
(*                                                                         *)
(* A number is the record [n, k] standing for n * (pi/180)^k: the degree   *)
(* to radian conversion pi * a / 180 raises k by one, and two numbers are  *)
(* equal exactly when their records are (pi/180 is transcendental), once 0 *)
(* is kept as [0, 0].  A list is an object of the heap, named by its       *)
(* reference; an instance keeps the reference it was given.                *)
(***************************************************************************)
Num(n) == [n |-> n, k |-> 0]

\* math.pi * a / 180.
Deg2Rad(a) == IF a.n = 0 THEN a ELSE [n |-> a.n, k |-> a.k + 1]

ListRefs == {1, 2}

\* The lists a caller builds: 1 to MaxLen consecutive values from 0 or from 1.
CallerLists ==
  {[i \in 1..len |-> Num(base + i - 1)] : len \in 1..MaxLen, base \in {0, 1}}

\* seed=None and one seed a caller gives
Seeds == {None, "seed_1"}

Units == {"degrees", "degs", "deg", "Degrees", "DEGS", "Deg", "radians", "rad", "RADIANS"}

\* str.lower() on the strings of Units
Lower(u) ==
  CASE u = "Degrees" -> "degrees"
    [] u = "DEGS" -> "degs"
    [] u = "Deg" -> "deg"
    [] u = "RADIANS" -> "radians"
    [] OTHER -> u

\* random.randint(a, b): any integer of a..b.  Which one the generator gives
\* is not modelled: a draw after random.seed(a=seed) is one of the same values.
randint(a, b) == a..b

\* The draw leaves the first index out.
rand_select_from_one(xs, seed) == {xs[idx + 1] : idx \in randint(1, Len(xs) - 1)}

\* _rand_select(xs, seed): the values it can return (xs[idx] is 0-based).
_rand_select(xs, seed) == {xs[idx + 1] : idx \in randint(0, Len(xs) - 1)}

\* RandomRotate.__init__(angles, units): the heap after the loop
\* angles[i] = math.pi * angles[i] / 180. over the list it was given.
RandomRotate_init(h, ref, units) ==
  IF Lower(units) \in {"degrees", "degs", "deg"}
    THEN [h EXCEPT ![ref] = [i \in 1..Len(h[ref]) |-> Deg2Rad(h[ref][i])]]
    ELSE h

NoCall == [via |-> "none", inst |-> 0, xs |-> <<>>, seed |-> None, ret |-> Num(0)]

RandomInitState ==
  /\ heap \in [ListRefs -> CallerLists]
  /\ insts = <<>>
  /\ last = NoCall

RandomIdle ==
  /\ heap = [r \in ListRefs |-> <<Num(0)>>]
  /\ insts = <<>>
  /\ last = NoCall

\* RandomScale(scales, seed=seed): the instance keeps the list it was given.
RandomScaleNew ==
  \E ref \in ListRefs, seed \in Seeds :
    /\ Len(insts) < MaxInsts
    /\ insts' = Append(insts, [kind |-> "scale", ref |-> ref, seed |-> seed,
                               degrees |-> FALSE, given |-> heap[ref]])
    /\ UNCHANGED <<heap, last>>
    /\ UNCHANGED notRandom

\* RandomRotate(angles, units=units, seed=seed): the instance keeps the list
\* it was given; `given` records the values the list held at the call.
RandomRotateNew ==
  \E ref \in ListRefs, units \in Units, seed \in Seeds :
    /\ Len(insts) < MaxInsts
    /\ heap' = RandomRotate_init(heap, ref, units)
    /\ insts' = Append(insts, [kind |-> "rotate", ref |-> ref, seed |-> seed,
                               degrees |-> Lower(units) \in {"degrees", "degs", "deg"},
                               given |-> heap[ref]])
    /\ UNCHANGED last
    /\ UNCHANGED notRandom

\* RandomScale.get_params(scales, seed)
RandomScale_get_params ==
  \E ref \in ListRefs, seed \in Seeds :
    \E r \in _rand_select(heap[ref], seed) :
      /\ last' = [via |-> "RandomScale.get_params", inst |-> 0, xs |-> heap[ref],
                  seed |-> seed, ret |-> r]
      /\ UNCHANGED <<heap, insts>>
      /\ UNCHANGED notRandom

\* RandomRotate.get_params(angles, seed)
RandomRotate_get_params ==
  \E ref \in ListRefs, seed \in Seeds :
    \E r \in _rand_select(heap[ref], seed) :
      /\ last' = [via |-> "RandomRotate.get_params", inst |-> 0, xs |-> heap[ref],
                  seed |-> seed, ret |-> r]
      /\ UNCHANGED <<heap, insts>>
      /\ UNCHANGED notRandom

\* The value a call of instance i applies:
\* self.get_params(self._scales, self._seed), self.get_params(self._angles, self._seed)
TransformCall(i) ==
  \E r \in _rand_select(heap[insts[i].ref], insts[i].seed) :
    /\ last' = [via |-> "call", inst |-> i, xs |-> heap[insts[i].ref],
                seed |-> insts[i].seed, ret |-> r]
    /\ UNCHANGED <<heap, insts>>
    /\ UNCHANGED notRandom

\* RandomScale.__call__(x)
RandomScaleCall ==
  \E i \in 1..Len(insts) : insts[i].kind = "scale" /\ TransformCall(i)

\* RandomRotate.__call__(x)
RandomRotateCall ==
  \E i \in 1..Len(insts) : insts[i].kind = "rotate" /\ TransformCall(i)

(***************************************************************************)
(* Compose (transforms.py).  The transforms a caller composes are          *)
(* callables; the model draws them from four integer functions that do not *)
(* commute, so that an order or a count is visible in the result.          *)
(***************************************************************************)
TransformIds == {"inc", "dbl", "neg", "sq"}

ApplyTransform(t, x) ==
  CASE t = "inc" -> x + 1
    [] t = "dbl" -> 2 * x
    [] t = "neg" -> 0 - x
    [] t = "sq"  -> x * x

\* The loop of __call__ left at position i (1-based) with the running value x
\* and the applications made so far; each application is logged as
\* <<transform, argument>>.
RECURSIVE ComposeLoop(_, _, _, _)
ComposeLoop(ts, i, x, log) ==
  IF i > Len(ts)
    THEN [x |-> x, log |-> log]
    ELSE ComposeLoop(ts, i + 1, ApplyTransform(ts[i], x),
                     Append(log, <<ts[i], x>>))

\* A loop that leaves the last transform out.
Compose_call_skip_last(ts, x) ==
  ComposeLoop(SubSeq(ts, 1, Len(ts) - 1), 1, x, <<>>)

\* Compose.__call__(x)
Compose_call(ts, x) == ComposeLoop(ts, 1, x, <<>>)

ComposeInitState ==
  /\ compose_transforms = <<>>
  /\ compose_x = 0
  /\ compose_out = 0
  /\ compose_log = <<>>
  /\ compose_pc = "new"

\* Compose.__init__(transforms)
ComposeNew ==
  \E ts \in SeqsUpTo(TransformIds, MaxTransforms) :
    /\ compose_transforms' = ts
    /\ compose_pc' = "constructed"
    /\ compose_x' = 0
    /\ compose_out' = 0
    /\ compose_log' = <<>>
    /\ UNCHANGED notCompose

\* Compose.__call__(x)
ComposeCall ==
  \E x \in 0..MaxVal :
    /\ compose_pc # "new"
    /\ LET r == Compose_call(compose_transforms, x)
       IN  /\ compose_x' = x
           /\ compose_out' = r.x
           /\ compose_log' = r.log
    /\ compose_pc' = "called"
    /\ UNCHANGED compose_transforms
    /\ UNCHANGED notCompose

(***************************************************************************)
(* Storer and storer (models/utils.py).  A Python dict is a function on    *)
(* the set of its keys; an activation x is a value of 0..MaxVal.           *)
(***************************************************************************)
LayerNames == {"conv1", "relu1", "fc"}

\* d[k] = v
DictSet(d, k, v) == [kk \in (DOMAIN d) \cup {k} |-> IF kk = k THEN v ELSE d[kk]]

\* {k: v}
DictOf(k, v) == [kk \in {k} |-> v]

Dicts(K, V) == UNION {[S -> V] : S \in SUBSET K}

\* forward(x) that replaces the dict's content by the one entry.
Storer_forward_fresh_dict(d, name, x) == [save_state |-> DictOf(name, x), ret |-> x]

\* Storer.forward(x): self.save_state[self.name] = x; return x
Storer_forward(d, name, x) == [save_state |-> DictSet(d, name, x), ret |-> x]

NoForward == [name |-> "", x |-> 0, ret |-> 0, before |-> <<>>]

StorerInitState ==
  /\ save_state \in Dicts(LayerNames, 0..MaxVal)
  /\ storers = {}
  /\ fwd = NoForward

StorerIdle ==
  /\ save_state = <<>>
  /\ storers = {}
  /\ fwd = NoForward

\* Storer(save_state, name): every instance holds the same dict.
StorerNew ==
  \E name \in LayerNames :
    /\ storers' = storers \cup {name}
    /\ UNCHANGED <<save_state, fwd>>
    /\ UNCHANGED notStorer

\* Storer.forward(x) on the instance of that name
StorerForward ==
  \E name \in storers, x \in 0..MaxVal :
    LET r == Storer_forward(save_state, name, x)
    IN  /\ save_state' = r.save_state
        /\ fwd' = [name |-> name, x |-> x, ret |-> r.ret, before |-> save_state]
        /\ UNCHANGED storers
        /\ UNCHANGED notStorer

\* The key of the layer dict in a state, visual.LAYER_DICT
LAYER_DICT == "LAYER_DICT"

\* The other keys a state holds.
OtherKeys == {"epoch", "model"}

\* A value of a state is a number or a dict.
IntVal(n) == [tag |-> "int", n |-> n, items |-> <<>>]
DictVal(d) == [tag |-> "dict", n |-> 0, items |-> d]

\* storer that starts a new layer dict at every call.
storer_always_new(st, name, x) ==
  [state |-> DictSet(st, LAYER_DICT, DictVal(DictOf(name, x))), ret |-> x]

\* storer(state, name, x): state[LAYER_DICT][name] = x, which raises when the
\* state has no LAYER_DICT key (KeyError) or its value takes no item
\* assignment (TypeError); the bare except then sets
\* state[LAYER_DICT] = {name: x}.
storer(st, name, x) ==
  IF LAYER_DICT \in DOMAIN st /\ st[LAYER_DICT].tag = "dict"
    THEN [state |-> [st EXCEPT ![LAYER_DICT] = DictVal(DictSet(@.items, name, x))],
          ret |-> x]
    ELSE [state |-> DictSet(st, LAYER_DICT, DictVal(DictOf(name, x))), ret |-> x]

StateInitState ==
  /\ state \in Dicts(OtherKeys, {IntVal(n) : n \in 0..1})
  /\ state0 = state
  /\ calls = <<>>
  /\ storer_ret = 0

StateIdle ==
  /\ state = <<>>
  /\ state0 = <<>>
  /\ calls = <<>>
  /\ storer_ret = 0

\* storer(state, name, x)
StorerCall ==
  \E name \in LayerNames, x \in 0..MaxVal :
    /\ Len(calls) < MaxCalls
    /\ LET r == storer(state, name, x)
       IN  /\ state' = r.state
           /\ storer_ret' = r.ret
    /\ calls' = Append(calls, <<name, x>>)
    /\ UNCHANGED state0
    /\ UNCHANGED notState

(***************************************************************************)
(* basemodel and relus_to_not_inplace (models/utils.py).  A model is a     *)
(* tree of modules: module 1 is the model itself, module i > 1 is a child  *)
(* of an earlier module.  A module has its class and its inplace           *)
(* attribute ("True", "False", or "absent" where the class has none).      *)
(***************************************************************************)
\* _relu_classes, by class name
_relu_classes == {"ReLU", "ReLU6", "LeakyReLU", "RReLU", "PReLU"}

\* SubReLU is a class a caller derives from torch.nn.ReLU.
Classes == _relu_classes \cup {"SubReLU", "Sequential", "Linear"}

\* The classes an instance of cls is an instance of.
Mro(cls) == IF cls = "SubReLU" THEN {"SubReLU", "ReLU", "Module"} ELSE {cls, "Module"}

IsInstance(cls, of) == Mro(cls) \cap of # {}

\* The values the constructor of the class gives inplace.
InplaceOf(cls) ==
  IF cls \in {"ReLU", "ReLU6", "LeakyReLU", "RReLU", "SubReLU"}
    THEN {"True", "False"}
    ELSE {"absent"}

Module(cls, parent, inplace) == [cls |-> cls, parent |-> parent, inplace |-> inplace]

\* The modules a constructor can make as a child of module parent.
ModulesUnder(parent) ==
  UNION {{Module(c, parent, ip) : ip \in InplaceOf(c)} : c \in Classes}

\* The trees of n modules: module 1 is the model itself (parent 0), and a
\* further module is a child of an earlier module that is a container.
RECURSIVE TreesOf(_)
TreesOf(n) ==
  IF n = 1
    THEN {<<m>> : m \in ModulesUnder(0)}
    ELSE UNION {
           {Append(t, m) :
              m \in UNION {ModulesUnder(p) :
                             p \in {q \in 1..(n - 1) : t[q].cls = "Sequential"}}}
           : t \in TreesOf(n - 1)}

ModelTrees == UNION {TreesOf(n) : n \in 1..MaxModules}

\* model.modules(): the module and, recursively, the modules of its children.
RECURSIVE ModulesFrom(_, _)
ModulesFrom(t, i) ==
  {i} \cup UNION {ModulesFrom(t, j) : j \in {j \in DOMAIN t : t[j].parent = i}}

\* relus_to_not_inplace(model)
relus_to_not_inplace(t) ==
  [i \in DOMAIN t |->
     IF i \in ModulesFrom(t, 1) /\ t[i].cls \in _relu_classes
       THEN [t[i] EXCEPT !.inplace = "False"]
       ELSE t[i]]

ReluInitState ==
  /\ model_tree \in ModelTrees
  /\ layer_names = <<>>
  /\ relu_pc = "built"

ReluIdle ==
  /\ model_tree = <<>>
  /\ layer_names = <<>>
  /\ relu_pc = "built"

\* basemodel(model)(layer_names, ...): BaseModel.__init__ on the tree that
\* model's own __init__ builds.
BaseModelNew ==
  \E names \in SUBSET LayerNames :
    /\ relu_pc = "built"
    /\ model_tree' = relus_to_not_inplace(model_tree)
    /\ layer_names' = names
    /\ relu_pc' = "constructed"
    /\ UNCHANGED notRelu

\* relus_to_not_inplace(model), called on a model directly
RelusToNotInplace ==
  /\ relu_pc = "built"
  /\ model_tree' = relus_to_not_inplace(model_tree)
  /\ relu_pc' = "returned"
  /\ UNCHANGED layer_names
  /\ UNCHANGED notRelu

(***************************************************************************)
(* Tensors, for RandomAlpha and SpatialJitter (transforms.py).  A tensor   *)
(* is its size and its data, a function on the 0-based index tuples of     *)
(* that size.  Its values are integers: the operations modelled are        *)
(* indexing, elementwise products and sums, which read no other property   *)
(* of a float.                                                             *)
(***************************************************************************)
\* The 0-based index tuples of a tensor of that size.
RECURSIVE Indices(_)
Indices(size) ==
  IF size = <<>>
    THEN {<<>>}
    ELSE {<<i>> \o rest : i \in 0..(size[1] - 1), rest \in Indices(Tail(size))}

\* The row-major position of an index.
RECURSIVE LinearIndex(_, _, _)
LinearIndex(size, idx, k) ==
  IF k = 0 THEN 0 ELSE LinearIndex(size, idx, k - 1) * size[k] + idx[k]

\* A tensor of values of 0..MaxVal that change from element to element by p.
PatternTensor(size, s, p) ==
  [size |-> size,
   data |-> [idx \in Indices(size) |->
               (s + p * LinearIndex(size, idx, Len(size))) % (MaxVal + 1)]]

\* A tensor whose elements are all different.
IndexTensor(size) ==
  [size |-> size,
   data |-> [idx \in Indices(size) |-> LinearIndex(size, idx, Len(size))]]

\* x.squeeze(0): the first dimension goes when it is 1.
Squeeze0(x) ==
  IF x.size[1] = 1
    THEN [size |-> Tail(x.size),
          data |-> [idx \in Indices(Tail(x.size)) |-> x.data[<<0>> \o idx]]]
    ELSE x

\* _as_3d(x): a batch of one image is the image
_as_3d(x) == IF Len(x.size) = 4 THEN Squeeze0(x) ELSE x

\* The size two sizes of one length broadcast to.
BroadcastSize(sa, sb) ==
  [k \in 1..Len(sa) |-> IF sa[k] = 1 THEN sb[k] ELSE sa[k]]

\* The index of a tensor of size sz that a broadcast index reads.
BroadcastIndex(sz, idx) == [k \in 1..Len(sz) |-> IF sz[k] = 1 THEN 0 ELSE idx[k]]

\* a * b
Mul(a, b) ==
  [size |-> BroadcastSize(a.size, b.size),
   data |-> [idx \in Indices(BroadcastSize(a.size, b.size)) |->
               a.data[BroadcastIndex(a.size, idx)] * b.data[BroadcastIndex(b.size, idx)]]]

\* a + b
Add(a, b) ==
  [size |-> BroadcastSize(a.size, b.size),
   data |-> [idx \in Indices(BroadcastSize(a.size, b.size)) |->
               a.data[BroadcastIndex(a.size, idx)] + b.data[BroadcastIndex(b.size, idx)]]]

\* 1 - a
OneMinus(a) == [size |-> a.size, data |-> [idx \in Indices(a.size) |-> 1 - a.data[idx]]]

\* x[ch].repeat(n, 1, 1) of a 3-d x: n copies of its channel ch.
ChannelRepeated(x, ch, n) ==
  [size |-> <<n, x.size[2], x.size[3]>>,
   data |-> [idx \in Indices(<<n, x.size[2], x.size[3]>>) |->
               x.data[<<ch, idx[2], idx[3]>>]]]

\* x[:-1] of a 3-d x: all channels but the last.
AllButLastChannel(x) ==
  [size |-> <<x.size[1] - 1, x.size[2], x.size[3]>>,
   data |-> [idx \in Indices(<<x.size[1] - 1, x.size[2], x.size[3]>>) |-> x.data[idx]]]

\* FFTImage(size, ...).sigmoid().get_valid_image(): an image of that size.
\* The class is defined in visual/images.py.
FFTImage(size) == {PatternTensor(size, s, p) : s \in 0..MaxVal, p \in {0, 1}}

\* The size RandomAlpha.__call__ asks of the random image.
RandomImageSize(x, colour) ==
  LET size == _as_3d(x).size
  IN  [size EXCEPT ![1] = IF colour THEN size[1] - 1 ELSE 1]

\* The call with the mask taken from the first channel.
RandomAlpha_call_first_channel(x, colour, random_image) ==
  LET x3 == _as_3d(x)
      alpha == ChannelRepeated(x3, 0, x3.size[1] - 1)
  IN  Add(Mul(AllButLastChannel(x3), alpha), Mul(random_image, OneMinus(alpha)))

\* RandomAlpha.__call__(x), given the random image FFTImage made
RandomAlpha_call(x, colour, random_image) ==
  LET x3 == _as_3d(x)
      alpha == ChannelRepeated(x3, x3.size[1] - 1, x3.size[1] - 1)
      image == Mul(AllButLastChannel(x3), alpha)
  IN  Add(image, Mul(random_image, OneMinus(alpha)))

\* The images a caller passes: (C, H, W), or (1, C, H, W), with C >= 2.
ImageSizes ==
  LET chw == {<<c, h, w>> : c \in 2..MaxChannels, h \in 1..MaxSide, w \in 1..MaxSide}
  IN  chw \cup {<<1>> \o sz : sz \in chw}

AlphaImages ==
  {PatternTensor(size, s, p) : size \in ImageSizes, s \in 0..MaxVal, p \in {1, 2}}

EmptyTensor == [size |-> <<>>, data |-> <<>>]

NoAlphaCall == [random_image |-> EmptyTensor, out |-> EmptyTensor]

\* alpha_x is the image the transform is called on.
AlphaInitState ==
  /\ alpha_x \in AlphaImages
  /\ alpha_colour = TRUE
  /\ alpha_pc = "new"
  /\ alp = NoAlphaCall

AlphaIdle ==
  /\ alpha_x = EmptyTensor
  /\ alpha_colour = TRUE
  /\ alpha_pc = "new"
  /\ alp = NoAlphaCall

\* RandomAlpha(sd, decay_power, colour): sd and decay_power go to FFTImage only.
RandomAlphaNew ==
  \E colour \in BOOLEAN :
    /\ alpha_colour' = colour
    /\ alpha_pc' = "constructed"
    /\ alp' = NoAlphaCall
    /\ UNCHANGED alpha_x
    /\ UNCHANGED notAlpha

\* RandomAlpha.__call__(x)
RandomAlphaCall ==
  \E random_image \in FFTImage(RandomImageSize(alpha_x, alpha_colour)) :
    /\ alpha_pc # "new"
    /\ alp' = [random_image |-> random_image,
               out |-> RandomAlpha_call(alpha_x, alpha_colour, random_image)]
    /\ alpha_pc' = "called"
    /\ UNCHANGED <<alpha_x, alpha_colour>>
    /\ UNCHANGED notAlpha

\* A slice bound as Python reads it on a dimension of n elements.
SliceBound(b, n) ==
  LET c == IF b < 0 THEN b + n ELSE b
  IN  IF c < 0 THEN 0 ELSE IF c > n THEN n ELSE c

\* img[:, x0:x1, y0:y1] of a 3-d img
Crop(img, x0, x1, y0, y1) ==
  LET xs == SliceBound(x0, img.size[2])
      xe == SliceBound(x1, img.size[2])
      ys == SliceBound(y0, img.size[3])
      ye == SliceBound(y1, img.size[3])
      nx == IF xe > xs THEN xe - xs ELSE 0
      ny == IF ye > ys THEN ye - ys ELSE 0
  IN  [size |-> <<img.size[1], nx, ny>>,
       data |-> [idx \in Indices(<<img.size[1], nx, ny>>) |->
                   img.data[<<idx[1], idx[2] + xs, idx[3] + ys>>]]]

\* SpatialJitter.get_params(pixels, seed): the offset pairs it can draw
SpatialJitter_get_params(pixels, seed) == randint(0, pixels) \X randint(0, pixels)

\* The call with both ends at size - pixels, whatever the offsets.
SpatialJitter_call_fixed_end(img, pixels, x_offset, y_offset) ==
  LET img3 == _as_3d(img)
  IN  Crop(img3, x_offset, img3.size[2] - pixels, y_offset, img3.size[3] - pixels)

\* SpatialJitter.__call__(img), given the offsets get_params drew
SpatialJitter_call(img, pixels, x_offset, y_offset) ==
  LET img3 == _as_3d(img)
      x_end == img3.size[2] - (pixels - x_offset)
      y_end == img3.size[3] - (pixels - y_offset)
  IN  Crop(img3, x_offset, x_end, y_offset, y_end)

\* The images a caller passes: (C, H, W) or (1, C, H, W).
JitterImages ==
  LET chw == {<<c, h, w>> : c \in 1..2, h \in 1..MaxSide, w \in 1..MaxSide}
  IN  {IndexTensor(size) : size \in chw \cup {<<1>> \o sz : sz \in chw}}

NoJitterCall == [x_offset |-> 0, y_offset |-> 0, out |-> EmptyTensor]

\* jit_img is the image the transform is called on.
JitterInitState ==
  /\ jit_img \in JitterImages
  /\ jit_pixels = 0
  /\ jit_seed = None
  /\ jit_pc = "new"
  /\ jit = NoJitterCall

JitterIdle ==
  /\ jit_img = EmptyTensor
  /\ jit_pixels = 0
  /\ jit_seed = None
  /\ jit_pc = "new"
  /\ jit = NoJitterCall

\* SpatialJitter(pixels, seed)
SpatialJitterNew ==
  \E pixels \in 0..MaxPixels, seed \in Seeds :
    /\ jit_pixels' = pixels
    /\ jit_seed' = seed
    /\ jit_pc' = "constructed"
    /\ jit' = NoJitterCall
    /\ UNCHANGED jit_img
    /\ UNCHANGED notJitter

\* SpatialJitter.__call__(img)
SpatialJitterCall ==
  \E offsets \in SpatialJitter_get_params(jit_pixels, jit_seed) :
    /\ jit_pc # "new"
    /\ jit' = [x_offset |-> offsets[1], y_offset |-> offsets[2],
               out |-> SpatialJitter_call(jit_img, jit_pixels, offsets[1], offsets[2])]
    /\ jit_pc' = "called"
    /\ UNCHANGED <<jit_img, jit_pixels, jit_seed>>
    /\ UNCHANGED notJitter

(***************************************************************************)
(* The specifications: one per group, the other groups idle.               *)
(***************************************************************************)
ComposeNext == ComposeNew \/ ComposeCall

InitCompose ==
  ComposeInitState /\ RandomIdle /\ StorerIdle /\ StateIdle /\ ReluIdle /\ AlphaIdle /\ JitterIdle

SpecCompose == InitCompose /\ [][ComposeNext]_vars

SelectNext ==
  \/ RandomScale_get_params
  \/ RandomRotate_get_params
  \/ RandomScaleNew
  \/ RandomScaleCall

InitSelect ==
  ComposeInitState /\ RandomInitState /\ StorerIdle /\ StateIdle /\ ReluIdle /\ AlphaIdle /\ JitterIdle

SpecSelect == InitSelect /\ [][SelectNext]_vars

RotateNext == RandomRotateNew \/ RandomRotateCall

InitRotate ==
  ComposeInitState /\ RandomInitState /\ StorerIdle /\ StateIdle /\ ReluIdle /\ AlphaIdle /\ JitterIdle

SpecRotate == InitRotate /\ [][RotateNext]_vars

StorerNext == StorerNew \/ StorerForward

InitStorer ==
  ComposeInitState /\ RandomIdle /\ StorerInitState /\ StateIdle /\ ReluIdle /\ AlphaIdle /\ JitterIdle

SpecStorer == InitStorer /\ [][StorerNext]_vars

StateNext == StorerCall

InitState ==
  ComposeInitState /\ RandomIdle /\ StorerIdle /\ StateInitState /\ ReluIdle /\ AlphaIdle /\ JitterIdle

SpecState == InitState /\ [][StateNext]_vars

ReluNext == BaseModelNew \/ RelusToNotInplace

InitRelu ==
  ComposeInitState /\ RandomIdle /\ StorerIdle /\ StateIdle /\ ReluInitState /\ AlphaIdle /\ JitterIdle

SpecRelu == InitRelu /\ [][ReluNext]_vars

AlphaNext == RandomAlphaNew \/ RandomAlphaCall

InitAlpha ==
  ComposeInitState /\ RandomIdle /\ StorerIdle /\ StateIdle /\ ReluIdle /\ AlphaInitState /\ JitterIdle

SpecAlpha == InitAlpha /\ [][AlphaNext]_vars

JitterNext == SpatialJitterNew \/ SpatialJitterCall

InitJitter ==
  ComposeInitState /\ RandomIdle /\ StorerIdle /\ StateIdle /\ ReluIdle /\ AlphaIdle /\ JitterInitState

SpecJitter == InitJitter /\ [][JitterNext]_vars

(***************************************************************************)
(* The claims.                                                             *)
(***************************************************************************)
\* t_n(...t_2(t_1(x))...), written from the outside in.
RECURSIVE Nested(_, _, _)
Nested(ts, n, x) ==
  IF n = 0 THEN x ELSE ApplyTransform(ts[n], Nested(ts, n - 1, x))

\* C3: a call of Compose(transforms) applies every transform of the list
\* exactly once, in list order, each to the result of the previous one, and
\* returns t_n(...t_1(x)...); with an empty list it returns x.
C3_ComposeAppliesInOrder ==
  compose_pc = "called" =>
    /\ compose_out = Nested(compose_transforms, Len(compose_transforms), compose_x)
    /\ Len(compose_log) = Len(compose_transforms)
    /\ \A i \in 1..Len(compose_transforms) :
         compose_log[i] = <<compose_transforms[i],
                            Nested(compose_transforms, i - 1, compose_x)>>
    /\ (compose_transforms = <<>> => compose_out = compose_x)

\* A call with three transforms whose order matters: (x + 1) * 2 squared
\* differs from every other order of the three.
C3_Witness ==
  /\ compose_pc = "called"
  /\ compose_transforms = <<"inc", "dbl", "sq">>
  /\ compose_x = 1
  /\ compose_out = 16

C5_AppliedAngleIsConvertedOnce ==
  (last.via = "call" /\ insts[last.inst].kind = "rotate") =>
    IF insts[last.inst].degrees
      THEN last.ret \in {Deg2Rad(a) : a \in Range(insts[last.inst].given)}
      ELSE last.ret \in Range(insts[last.inst].given)

\* C2: Storer.forward(x) returns the x it was given and leaves it in
\* save_state[name]; every other key of save_state is as it was.
C2_ForwardStoresAndReturns ==
  fwd.name # "" =>
    /\ fwd.ret = fwd.x
    /\ fwd.name \in DOMAIN save_state
    /\ save_state[fwd.name] = fwd.x
    /\ (DOMAIN save_state) \ {fwd.name} = (DOMAIN fwd.before) \ {fwd.name}
    /\ \A k \in (DOMAIN save_state) \ {fwd.name} : save_state[k] = fwd.before[k]

\* A forward that stored under a new key of a dict holding two other keys.
C2_Witness ==
  /\ fwd.name # ""
  /\ fwd.name \notin DOMAIN fwd.before
  /\ Cardinality(DOMAIN fwd.before) = 2
  /\ fwd.x = 1

\* The x of the most recent call of storer with that name.
RECURSIVE LastStored(_, _, _)
LastStored(cs, n, name) ==
  IF cs[n][1] = name THEN cs[n][2] ELSE LastStored(cs, n - 1, name)

\* C7: after any calls of storer on a state that had no LAYER_DICT entry,
\* state[LAYER_DICT] maps exactly the names stored so far, each to the x of
\* the most recent call with that name; the state's other keys are as they
\* were and the call returned its x.
C7_LayerDictHoldsLatest ==
  calls # <<>> =>
    /\ LAYER_DICT \in DOMAIN state
    /\ state[LAYER_DICT].tag = "dict"
    /\ DOMAIN state[LAYER_DICT].items = {calls[i][1] : i \in 1..Len(calls)}
    /\ \A name \in DOMAIN state[LAYER_DICT].items :
         state[LAYER_DICT].items[name] = LastStored(calls, Len(calls), name)
    /\ (DOMAIN state) \ {LAYER_DICT} = DOMAIN state0
    /\ \A k \in DOMAIN state0 : state[k] = state0[k]
    /\ storer_ret = calls[Len(calls)][2]

\* Three calls: a name stored, another name stored, the first stored again
\* with another x, on a state that holds another key.
C7_Witness ==
  /\ Len(calls) = 3
  /\ calls[1][1] = calls[3][1]
  /\ calls[1][1] # calls[2][1]
  /\ calls[1][2] # calls[3][2]
  /\ DOMAIN state0 # {}

\* C1 as claimed: once relus_to_not_inplace has returned, or an instance of
\* the class basemodel returns is constructed, every module of the tree that
\* is an instance of a class of the ReLU family has inplace False.
C1_NoReluInstanceInplace ==
  relu_pc \in {"constructed", "returned"} =>
    \A i \in ModulesFrom(model_tree, 1) :
      IsInstance(model_tree[i].cls, _relu_classes) => model_tree[i].inplace = "False"

\* The element (c, i, j) of an image given as (C, H, W) or as (1, C, H, W).
Px(x, c, i, j) ==
  IF Len(x.size) = 4 THEN x.data[<<0, c, i, j>>] ELSE x.data[<<c, i, j>>]

Chans(x) == x.size[Len(x.size) - 2]
Height(x) == x.size[Len(x.size) - 1]
Width(x) == x.size[Len(x.size)]

\* C6: RandomAlpha on an image of C channels, the last one alpha, returns
\* C-1 channels of the same height and width, each value x[c]*a + r*(1-a)
\* with a the alpha value and r the random image's value at the pixel; the
\* random image has C-1 channels with colour=True and one channel, shared by
\* the colour channels, with colour=False.
C6_AlphaBlend ==
  alpha_pc = "called" =>
    LET x == alpha_x
        rnd == alp.random_image
        out == alp.out
    IN  /\ out.size = <<Chans(x) - 1, Height(x), Width(x)>>
        /\ DOMAIN out.data = Indices(<<Chans(x) - 1, Height(x), Width(x)>>)
        /\ rnd.size = <<IF alpha_colour THEN Chans(x) - 1 ELSE 1, Height(x), Width(x)>>
        /\ \A c \in 0..(Chans(x) - 2), i \in 0..(Height(x) - 1), j \in 0..(Width(x) - 1) :
             LET a == Px(x, Chans(x) - 1, i, j)
                 r == rnd.data[<<IF alpha_colour THEN c ELSE 0, i, j>>]
             IN  /\ out.data[<<c, i, j>>] = Px(x, c, i, j) * a + r * (1 - a)
                 /\ (a = 1 => out.data[<<c, i, j>>] = Px(x, c, i, j))
                 /\ (a = 0 => out.data[<<c, i, j>>] = r)

\* A call with colour=False on three channels whose alpha is 1 at one pixel
\* and 0 at another, the random image differing from the colour there.
C6_Witness ==
  /\ alpha_pc = "called"
  /\ ~alpha_colour
  /\ Chans(alpha_x) = 3
  /\ \E i \in 0..(Height(alpha_x) - 1), j \in 0..(Width(alpha_x) - 1) :
       Px(alpha_x, 2, i, j) = 1
  /\ \E i \in 0..(Height(alpha_x) - 1), j \in 0..(Width(alpha_x) - 1) :
       /\ Px(alpha_x, 2, i, j) = 0
       /\ alp.random_image.data[<<0, i, j>>] # Px(alpha_x, 0, i, j)

\* The crop of img at the offsets, of the given height and width.
IsCropAt(out, img, x_offset, y_offset, h, w) ==
  /\ out.size = <<Chans(img), h, w>>
  /\ DOMAIN out.data = Indices(<<Chans(img), h, w>>)
  /\ \A idx \in DOMAIN out.data :
       out.data[idx] = Px(img, idx[1], idx[2] + x_offset, idx[3] + y_offset)

\* C8 as claimed: for every pixels >= 0, also pixels >= H or W, the call
\* returns the crop of shape (C, H - pixels, W - pixels) at the offsets drawn.
C8_CropForEveryPixels ==
  jit_pc = "called" =>
    IsCropAt(jit.out, jit_img, jit.x_offset, jit.y_offset,
             Height(jit_img) - jit_pixels, Width(jit_img) - jit_pixels)

\* C8, amended: for 0 <= pixels <= min(H, W) the call returns the crop of
\* shape (C, H - pixels, W - pixels) at the offsets drawn, each in 0..pixels.
C8_CropWithinImage ==
  (jit_pc = "called" /\ jit_pixels <= Height(jit_img) /\ jit_pixels <= Width(jit_img)) =>
    /\ jit.x_offset \in 0..jit_pixels
    /\ jit.y_offset \in 0..jit_pixels
    /\ IsCropAt(jit.out, jit_img, jit.x_offset, jit.y_offset,
                Height(jit_img) - jit_pixels, Width(jit_img) - jit_pixels)

\* A call with pixels = 1 on an image of height and width 2 that drew the
\* offsets (1, 0) and returned a crop of one row and one column.
C8_Witness ==
  /\ jit_pc = "called"
  /\ jit_pixels = 1
  /\ Height(jit_img) = 2
  /\ Width(jit_img) = 2
  /\ jit.x_offset = 1
  /\ jit.y_offset = 0
  /\ jit.out.size = <<Chans(jit_img), 1, 1>>

====
